---------------------------- MODULE Spec2Model ----------------------------
(***************************************************************************)
(* Paste Reformatter (keathmilligan/obsidian-paste-reformatter).           *)
(*                                                                         *)
(* A model of the paste pipeline: onPaste / the two commands call doPaste, *)
(* which calls transformHTML, htmlToMarkdown, getCurrentHeadingLevel and   *)
(* transformMarkdown, and then decides whether to replace the selection.   *)
(*                                                                         *)
(* JavaScript strings are sequences of one-character strings.              *)
(* transformMarkdown is modelled stage by stage (pattern substitution,     *)
(* heading scan, escaping, line policy); the heading scan is modelled one  *)
(* invocation of the String.replace callback at a time, so that the        *)
(* closure variables `delta`, `cascading` and `appliedTransformations`     *)
(* are state.                                                              *)
(***************************************************************************)
EXTENDS Integers, Sequences, FiniteSets, TLC

VARIABLES
    settings,                    \* this.settings (read-only during a paste)
    editor,                      \* active view / editor: document lines and cursor line
    origin,                      \* entry point of the paste being handled
    clipboardData,               \* the DataTransfer handed to doPaste
    pc,                          \* position of the paste being handled
    originalMarkdown,            \* doPaste: originalMarkdown (the text given to transformMarkdown)
    contextLevel,                \* transformMarkdown parameter
    escapeMarkdown,              \* transformMarkdown parameter
    markdown,                    \* transformMarkdown: the text being rewritten
    appliedTransformations,      \* transformMarkdown: the changed flag
    pos,                         \* heading scan: index where the search for the next match starts
    out,                         \* heading scan: result of String.replace built so far
    delta,                       \* heading scan closure variable
    cascading,                   \* heading scan closure variable
    log,                         \* heading scan: console.log of (current level, new level)
    appliedHTMLTransformations,  \* doPaste local
    inserted,                    \* texts handed to editor.replaceSelection by this paste
    doPasteReturn,               \* value returned by doPaste: "none" before it returns
    defaultPrevented,            \* event.preventDefault() was called
    call,                        \* which call of transformMarkdown this is (1 or 2)
    firstResult,                 \* result of the first call, kept when the output is fed back
    caught,                      \* doPaste: the catch block ran (console.error)
    originalHTML,                \* the HTML text handed to transformHTML
    html,                        \* transformHTML: the text being rewritten
    htmlPc,                      \* position of the call of transformHTML
    parsed,                      \* transformHTML: doc as DOMParser returned it
    doc,                         \* transformHTML: doc, the elements below doc.body
    emptyElementsFound,          \* transformHTML: flag of the pruning loop
    converted                    \* doPaste: the argument handed to htmlToMarkdown

vars == << settings, editor, origin, clipboardData, pc, originalMarkdown,
           contextLevel, escapeMarkdown, markdown, appliedTransformations,
           pos, out, delta, cascading, log, appliedHTMLTransformations,
           inserted, doPasteReturn, defaultPrevented, call, firstResult,
           caught, originalHTML, html, htmlPc, parsed, doc,
           emptyElementsFound, converted >>

----------------------------------------------------------------------------
(* Bounds of the model *)

\* Longest enumerated pasted text, in lines.
MaxLines == 2

\* Deepest heading level of Markdown ('#'.repeat(newLevel) never exceeds it).
MaxLevel == 6

----------------------------------------------------------------------------
(* Strings *)

Min(a, b) == IF a < b THEN a ELSE b

Max(a, b) == IF a > b THEN a ELSE b

\* '#'.repeat(n)
Hashes(n) == [i \in 1..n |-> "#"]

\* \s of a JavaScript regular expression, over the characters of the model
IsWhitespace(c) == c \in {" ", "\t", "\n", "\r"}

\* ^ under the m flag matches at the start of the text and after a line terminator
AtLineStart(s, i) == i = 1 \/ s[i - 1] \in {"\n", "\r"}

\* number of consecutive '#' from index i
HashRun(s, i) ==
    LET stops == {j \in i..(Len(s) + 1) : j = Len(s) + 1 \/ s[j] # "#"}
    IN  (CHOOSE j \in stops : \A k \in stops : j <= k) - i

\* headingRegex = /^(#{1,6})\s/gm matches at index i
HeadingAt(s, i) ==
    /\ i \in 1..Len(s)
    /\ AtLineStart(s, i)
    /\ LET n == HashRun(s, i)
       IN  /\ n \in 1..MaxLevel
           /\ i + n <= Len(s)
           /\ IsWhitespace(s[i + n])

\* index of the first match of headingRegex at or after `from`; 0 when there is none
NextHeading(s, from) ==
    LET hits == {i \in from..Len(s) : HeadingAt(s, i)}
    IN  IF hits = {} THEN 0 ELSE CHOOSE i \in hits : \A k \in hits : i <= k

\* the concatenation of pieces[lo], ..., pieces[hi]
RECURSIVE ConcatRange(_, _, _)
ConcatRange(pieces, lo, hi) ==
    IF lo > hi THEN << >>
    ELSE IF lo = hi THEN pieces[lo]
    ELSE LET mid == (lo + hi) \div 2
         IN  ConcatRange(pieces, lo, mid) \o ConcatRange(pieces, mid + 1, hi)

\* the concatenation of a sequence of strings
Concat(pieces) == ConcatRange(pieces, 1, Len(pieces))

\* the k-th smallest element of a set of indices
Nth(S, k) == CHOOSE i \in S : Cardinality({j \in S : j <= i}) = k

\* lines.join('\n')
Join(lines) ==
    Concat([i \in 1..Len(lines) |-> IF i = 1 THEN lines[i] ELSE <<"\n">> \o lines[i]])

----------------------------------------------------------------------------
(* transformMarkdown: pattern substitution *)

\* new RegExp(pattern, 'g') throws a SyntaxError: the unbalanced pattern "("
PatternThrows(pattern) == pattern = "("

\* s.replace(new RegExp(pattern, 'g'), replacement) for a pattern that is one
\* literal character and a replacement without $-references
ReplaceAll(s, pattern, replacement) ==
    Concat([i \in 1..Len(s) |-> IF s[i] = pattern THEN replacement ELSE <<s[i]>>])

\* RegexReplacements with the loop left at the first pattern that throws
RECURSIVE RegexReplacementsAbort(_, _)
RegexReplacementsAbort(r, list) ==
    IF list = << >> THEN r
    ELSE LET rep == Head(list)
         IN  IF PatternThrows(rep.pattern) THEN r
             ELSE LET m == ReplaceAll(r.markdown, rep.pattern, rep.replacement)
                  IN  RegexReplacementsAbort(
                          [markdown |-> m,
                           applied  |-> IF m # r.markdown THEN TRUE ELSE r.applied],
                          Tail(list))

\* the for loop over settings.markdownRegexReplacements; r is the pair
\* (markdown, appliedTransformations) before the loop
RECURSIVE RegexReplacements(_, _)
RegexReplacements(r, list) ==
    IF list = << >> THEN r
    ELSE LET rep == Head(list)
             after ==
                 IF PatternThrows(rep.pattern) THEN r
                 ELSE LET m == ReplaceAll(r.markdown, rep.pattern, rep.replacement)
                      IN  [markdown |-> m,
                           applied  |-> IF m # r.markdown THEN TRUE ELSE r.applied]
         IN  RegexReplacements(after, Tail(list))

----------------------------------------------------------------------------
(* transformHTML: pattern substitution *)

\* the for loop over settings.htmlRegexReplacements
RECURSIVE HtmlRegexReplacements(_, _)
HtmlRegexReplacements(text, list) ==
    IF list = << >> THEN text
    ELSE LET rep == Head(list)
         IN  HtmlRegexReplacements(
                 IF PatternThrows(rep.pattern) THEN text
                 ELSE ReplaceAll(text, rep.pattern, rep.replacement),
                 Tail(list))

----------------------------------------------------------------------------
(* transformMarkdown: heading adjustment *)

\* HeadingMode with the maxHeadingLevel branch tested first
HeadingModeMaxFirst(s, ctx) ==
    IF s.maxHeadingLevel > 1 THEN "max"
    ELSE IF s.contextualCascade /\ ctx > 0 THEN "contextual"
    ELSE "none"

\* which branch of the heading if/else-if runs
HeadingMode(s, ctx) ==
    IF s.contextualCascade /\ ctx > 0 THEN "contextual"
    ELSE IF s.maxHeadingLevel > 1 THEN "max"
    ELSE "none"

\* ContextualCascadeLevel with the cascade started at the context level itself
\* instead of one level below it
ContextualCascadeLevelAtContext(currentLevel, ctx, st) ==
    IF st.cascading
    THEN [newLevel  |-> Min(currentLevel + st.delta, MaxLevel),
          delta     |-> st.delta,
          cascading |-> TRUE]
    ELSE IF currentLevel <= ctx
    THEN [newLevel |-> ctx, delta |-> ctx - currentLevel, cascading |-> TRUE]
    ELSE [newLevel |-> currentLevel, delta |-> st.delta, cascading |-> FALSE]

\* ContextualCascadeLevel with delta computed again at every heading at or
\* above the context level
ContextualCascadeLevelRecomputed(currentLevel, ctx, st) ==
    IF currentLevel <= ctx
    THEN LET newLevel == Min(ctx + 1, MaxLevel)
         IN  [newLevel  |-> newLevel,
              delta     |-> newLevel - currentLevel,
              cascading |-> TRUE]
    ELSE IF st.cascading
    THEN [newLevel  |-> Min(currentLevel + st.delta, MaxLevel),
          delta     |-> st.delta,
          cascading |-> TRUE]
    ELSE [newLevel |-> currentLevel, delta |-> st.delta, cascading |-> FALSE]

\* ContextualCascadeLevel without Math.min(..., 6) in the cascading branch
ContextualCascadeLevelUnclamped(currentLevel, ctx, st) ==
    IF st.cascading
    THEN [newLevel  |-> currentLevel + st.delta,
          delta     |-> st.delta,
          cascading |-> TRUE]
    ELSE IF currentLevel <= ctx
    THEN LET newLevel == Min(ctx + 1, MaxLevel)
         IN  [newLevel  |-> newLevel,
              delta     |-> newLevel - currentLevel,
              cascading |-> TRUE]
    ELSE [newLevel |-> currentLevel, delta |-> st.delta, cascading |-> FALSE]

\* body of the contextual cascade callback, up to the console.log of the result
ContextualCascadeLevel(currentLevel, ctx, st) ==
    IF st.cascading
    THEN [newLevel  |-> Min(currentLevel + st.delta, MaxLevel),
          delta     |-> st.delta,
          cascading |-> TRUE]
    ELSE IF currentLevel <= ctx
    THEN LET newLevel == Min(ctx + 1, MaxLevel)
         IN  [newLevel  |-> newLevel,
              delta     |-> newLevel - currentLevel,
              cascading |-> TRUE]
    ELSE [newLevel |-> currentLevel, delta |-> st.delta, cascading |-> FALSE]

\* MaxHeadingLevelLevel with cascadeHeadingLevels ignored: every heading capped
MaxHeadingLevelLevelCapOnly(currentLevel, s, st) ==
    [newLevel  |-> Max(currentLevel, s.maxHeadingLevel),
     delta     |-> st.delta,
     cascading |-> st.cascading]

\* MaxHeadingLevelLevel with cascadeHeadingLevels ignored: always cascading
MaxHeadingLevelLevelAlwaysCascade(currentLevel, s, st) ==
    IF st.cascading
    THEN [newLevel  |-> Min(currentLevel + st.delta, MaxLevel),
          delta     |-> st.delta,
          cascading |-> TRUE]
    ELSE IF currentLevel < s.maxHeadingLevel
    THEN [newLevel  |-> s.maxHeadingLevel,
          delta     |-> s.maxHeadingLevel - currentLevel,
          cascading |-> TRUE]
    ELSE [newLevel |-> currentLevel, delta |-> st.delta, cascading |-> FALSE]

\* MaxHeadingLevelLevel with the cap applied as a shift of every heading by
\* maxHeadingLevel - 1
MaxHeadingLevelLevelShift(currentLevel, s, st) ==
    IF s.cascadeHeadingLevels
    THEN MaxHeadingLevelLevelAlwaysCascade(currentLevel, s, st)
    ELSE [newLevel  |-> Min(currentLevel + s.maxHeadingLevel - 1, MaxLevel),
          delta     |-> st.delta,
          cascading |-> st.cascading]

\* body of the maxHeadingLevel callback, up to the console.log of the result
MaxHeadingLevelLevel(currentLevel, s, st) ==
    IF s.cascadeHeadingLevels
    THEN IF st.cascading
         THEN [newLevel  |-> Min(currentLevel + st.delta, MaxLevel),
               delta     |-> st.delta,
               cascading |-> TRUE]
         ELSE IF currentLevel < s.maxHeadingLevel
         THEN [newLevel  |-> s.maxHeadingLevel,
               delta     |-> s.maxHeadingLevel - currentLevel,
               cascading |-> TRUE]
         ELSE [newLevel |-> currentLevel, delta |-> st.delta, cascading |-> FALSE]
    ELSE [newLevel  |-> Max(currentLevel, s.maxHeadingLevel),
          delta     |-> st.delta,
          cascading |-> st.cascading]

\* the assignment to appliedTransformations at the end of either callback
HeadingFlag(flag, currentLevel, newLevel) == newLevel # currentLevel

----------------------------------------------------------------------------
(* Tokens *)

\* tags of the line-break marker paragraphs, each one token: the start tag
\* serialized for the paragraph transformHTML creates (className, then
\* data-preserve), a start tag with data-preserve only, and the end tag
OpenClass == "<p class=\"preserve-line-break\" data-preserve=\"true\">"

OpenData == "<p data-preserve=\"true\">"

CloseP == "</p>"

\* the zero-width space U+200B that transformHTML puts in the paragraph; it
\* is neither \s nor removed by trim()
ZWSP == "U+200B"

\* the paragraph as XMLSerializer writes it
MarkerClass == << OpenClass, ZWSP, CloseP >>

MarkerData == << OpenData, ZWSP, CloseP >>

\* the character U+0060, which a TLA+ string cannot hold
Backtick == "U+0060"

\* const lineBreakPlaceholder, one token
lineBreakPlaceholder == "___LINE_BREAK_PLACEHOLDER___"

\* a line terminator: what . does not match and where ^ and $ match under m
IsLineTerminator(c) == c \in {"\n", "\r"}

----------------------------------------------------------------------------
(* transformMarkdown: escaping *)

\* .replace(/^(#{1,6}\s)/gm, '\\$1'): a match ends before the next line
\* starts, so every index where the pattern matches is a match of the scan
EscapeHeadings(s) ==
    Concat([i \in 1..Len(s) |-> IF HeadingAt(s, i) THEN <<"\\", s[i]>> ELSE <<s[i]>>])

\* index where the run of characters equal to s[i] that holds index i starts
RunStart(s, i) ==
    LET before == {j \in 1..i : \A k \in j..i : s[k] = s[i]}
    IN  CHOOSE j \in before : \A k \in before : j <= k

\* the placeholder text after the emphasis replace has escaped its
\* underscores, one token: it no longer matches RegExp(lineBreakPlaceholder)
EscapedPlaceholder == "\\__\\_LINE\\_BREAK\\_PLACEHOLDER\\__\\_"

\* .replace(/(\*\*|__|\*|_)/g, '\\$1'): "**" and "__" are tried first, so in a
\* run of one marker the matches start at every second character.  The
\* placeholder text is written as one token, never next to a '_' in the
\* texts of this model.
EscapeEmphasis(s) ==
    Concat([i \in 1..Len(s) |->
               IF s[i] \in {"*", "_"} /\ (i - RunStart(s, i)) % 2 = 0
               THEN <<"\\", s[i]>>
               ELSE IF s[i] = lineBreakPlaceholder THEN <<EscapedPlaceholder>>
               ELSE <<s[i]>>])

\* the starts of the matches of a global replace, scanned left to right from
\* `from`: E[i] is the index after the match that starts at i, 0 when the
\* pattern does not match at i
RECURSIVE MatchStarts(_, _)
MatchStarts(E, from) ==
    LET hits == {i \in from..Len(E) : E[i] # 0}
    IN  IF hits = {} THEN {}
        ELSE LET i == CHOOSE h \in hits : \A k \in hits : h <= k
             IN  {i} \cup MatchStarts(E, E[i])

\* .replace(regex, '\\$1') for a regex that is one capture group
EscapeMatches(s, starts) ==
    Concat([i \in 1..Len(s) |-> IF i \in starts THEN <<"\\", s[i]>> ELSE <<s[i]>>])

\* where a greedy \s* that starts at index i stops
SkipWhitespace(s, i) ==
    LET stops == {j \in i..(Len(s) + 1) : j = Len(s) + 1 \/ ~IsWhitespace(s[j])}
    IN  CHOOSE j \in stops : \A k \in stops : j <= k

\* length of the run of characters of `chars` from index i
RunLength(s, i, chars) ==
    LET stops == {j \in i..(Len(s) + 1) : j = Len(s) + 1 \/ s[j] \notin chars}
    IN  (CHOOSE j \in stops : \A k \in stops : j <= k) - i

\* [-+*]\s at index j
ListItemEnd(s, j) ==
    IF j + 1 <= Len(s) /\ s[j] \in {"-", "+", "*"} /\ IsWhitespace(s[j + 1])
    THEN j + 2 ELSE 0

Digits == {"0", "1", "2", "3", "4", "5", "6", "7", "8", "9"}

\* \d+\.\s at index j
NumberedItemEnd(s, j) ==
    LET d == RunLength(s, j, Digits)
    IN  IF d > 0 /\ j + d + 1 <= Len(s) /\ s[j + d] = "." /\ IsWhitespace(s[j + d + 1])
        THEN j + d + 2 ELSE 0

\* >\s at index j
BlockquoteEnd(s, j) ==
    IF j + 1 <= Len(s) /\ s[j] = ">" /\ IsWhitespace(s[j + 1]) THEN j + 2 ELSE 0

\* [-*_]{3,}\s*$ at index j: the trailing \s* is greedy, so the match ends at
\* the last end of line within the whitespace that follows the run
RuleEnd(s, j) ==
    LET n == RunLength(s, j, {"-", "*", "_"})
        e == j + n
        q == SkipWhitespace(s, e)
        ends == {p \in e..q : p = Len(s) + 1 \/ IsLineTerminator(s[p])}
    IN  IF n >= 3 /\ ends # {} THEN CHOOSE p \in ends : \A k \in ends : k <= p
        ELSE 0

\* - \[ \] at index j
TaskEnd(s, j) ==
    IF j + 4 <= Len(s) /\ SubSeq(s, j, j + 4) = <<"-", " ", "[", " ", "]">>
    THEN j + 5 ELSE 0

\* !?\[ at index i
LinkEnd(s, i) ==
    IF i < Len(s) /\ s[i] = "!" /\ s[i + 1] = "[" THEN i + 2
    ELSE IF s[i] = "[" THEN i + 1
    ELSE 0

\* `{1,3} at index i
BackticksEnd(s, i) == IF s[i] = Backtick THEN i + Min(3, RunLength(s, i, {Backtick})) ELSE 0

\* \| at index i
PipeEnd(s, i) == IF s[i] = "|" THEN i + 1 ELSE 0

\* the HTML tags of the texts of this model, each one token
IsTag(c) == c \in {OpenClass, OpenData, CloseP}

\* (`.*?`)|(<\/?[a-z][^>]*>) at index i: a backtick up to the next backtick
\* of its line, else a tag
CodeOrTagEnd(s, i) ==
    IF s[i] = Backtick
    THEN LET closes == {k \in (i + 1)..Len(s) :
                          /\ s[k] = Backtick
                          /\ \A m \in (i + 1)..(k - 1) : ~IsLineTerminator(s[m])}
         IN  IF closes = {} THEN 0
             ELSE (CHOOSE k \in closes : \A m \in closes : k <= m) + 1
    ELSE IF IsTag(s[i]) THEN i + 1
    ELSE 0

\* .replace(/^(\s*X)/gm, '\\$1') where XEnd[j] is the index after X matched
\* at j (0: no match): the greedy \s* runs from a line start up to X
EscapeLinePrefix(s, XEnd) ==
    EscapeMatches(s,
        MatchStarts([i \in 1..Len(s) |->
                        IF AtLineStart(s, i) THEN XEnd[SkipWhitespace(s, i)] ELSE 0], 1))

\* .replace(/(X)/g, '\\$1') where XEnd[i] is the index after X matched at i
EscapeEvery(s, XEnd) == EscapeMatches(s, MatchStarts(XEnd, 1))

\* the last replace of the chain: a code span is returned as it is, a tag is
\* put between backticks
EscapeTags(s) ==
    LET starts == MatchStarts([i \in 1..Len(s) |-> CodeOrTagEnd(s, i)], 1)
    IN  Concat([i \in 1..Len(s) |->
                   IF i \in starts /\ IsTag(s[i]) THEN <<Backtick, s[i], Backtick>> ELSE <<s[i]>>])

\* XEnd over the indices 1..Len(s) + 1 (a greedy \s* may stop at the end)
Ends(s, XEnd(_, _)) == [j \in 1..(Len(s) + 1) |-> IF j > Len(s) THEN 0 ELSE XEnd(s, j)]

\* the chain of replaces of the escape branch, in the order of the code
EscapeChain(s) ==
    LET s1  == EscapeHeadings(s)
        s2  == EscapeEmphasis(s1)
        s3  == EscapeLinePrefix(s2, Ends(s2, ListItemEnd))
        s4  == EscapeLinePrefix(s3, Ends(s3, NumberedItemEnd))
        s5  == EscapeEvery(s4, Ends(s4, LinkEnd))
        s6  == EscapeEvery(s5, Ends(s5, BackticksEnd))
        s7  == EscapeLinePrefix(s6, Ends(s6, BlockquoteEnd))
        s8  == EscapeLinePrefix(s7, Ends(s7, RuleEnd))
        s9  == EscapeEvery(s8, Ends(s8, PipeEnd))
        s10 == EscapeLinePrefix(s9, Ends(s9, TaskEnd))
    IN  EscapeTags(s10)

----------------------------------------------------------------------------
(* transformMarkdown: line breaks and empty lines *)

\* /<p ...[^>]*>.*?<\/p>/ matched from the start tag at index i: the index of
\* the nearest end tag after it on the same line, 0 when there is none
MarkerEnd(s, i, open) ==
    IF s[i] # open THEN 0
    ELSE LET ends == {j \in (i + 1)..Len(s) :
                        /\ s[j] = CloseP
                        /\ \A k \in (i + 1)..(j - 1) : ~IsLineTerminator(s[k])}
         IN  IF ends = {} THEN 0 ELSE CHOOSE j \in ends : \A k \in ends : j <= k

\* ReplaceMarkers without the g flag: only the first match is replaced
ReplaceFirstMarker(s, open) ==
    LET E == [i \in 1..Len(s) |-> MarkerEnd(s, i, open)]
        hits == {i \in 1..Len(s) : E[i] # 0}
    IN  IF hits = {} THEN s
        ELSE LET i == CHOOSE h \in hits : \A k \in hits : h <= k
             IN  SubSeq(s, 1, i - 1) \o <<lineBreakPlaceholder>>
                     \o SubSeq(s, E[i] + 1, Len(s))

\* markdown.replace(/<p ...[^>]*>.*?<\/p>/g, lineBreakPlaceholder) for the
\* start tag `open`: matches do not overlap, so of the start tags that reach
\* the same end tag the leftmost is the match
ReplaceMarkers(s, open) ==
    LET E == [i \in 1..Len(s) |-> MarkerEnd(s, i, open)]
        Starts == {i \in 1..Len(s) :
                     /\ E[i] # 0
                     /\ \A k \in 1..(i - 1) : E[k] # E[i]}
    IN  Concat([i \in 1..Len(s) |->
                   IF i \in Starts THEN <<lineBreakPlaceholder>>
                   ELSE IF \E k \in Starts : k < i /\ i <= E[k] THEN << >>
                   ELSE <<s[i]>>])

\* replace every token of `from` by the token `to`
ReplaceTokens(s, from, to) ==
    [i \in 1..Len(s) |-> IF s[i] \in from THEN to ELSE s[i]]

\* markdown.replace(/\r\n/g, '\n')
NormalizeLineEndings(s) ==
    Concat([i \in 1..Len(s) |->
               IF s[i] = "\r" /\ i < Len(s) /\ s[i + 1] = "\n" THEN << >> ELSE <<s[i]>>])

\* markdown.split('\n')
SplitLines(s) ==
    LET nl == {i \in 1..Len(s) : s[i] = "\n"}
        n  == Cardinality(nl)
    IN  [k \in 1..(n + 1) |->
            SubSeq(s, IF k = 1 THEN 1 ELSE Nth(nl, k - 1) + 1,
                      IF k = n + 1 THEN Len(s) ELSE Nth(nl, k) - 1)]

\* line.trim() === ''
IsBlankLine(line) == \A i \in 1..Len(line) : IsWhitespace(line[i])

\* line.includes(lineBreakPlaceholder)
HasPlaceholder(line) == \E i \in 1..Len(line) : line[i] = lineBreakPlaceholder

\* lines.filter(...).join('\n'); keepPlaceholders is the preserveLineBreaks branch
FilterLines(s, keepPlaceholders) ==
    LET Keep(line) == ~IsBlankLine(line) \/ (keepPlaceholders /\ HasPlaceholder(line))
    IN  Join(SelectSeq(SplitLines(s), Keep))

\* the code from `let preserveLineBreaks` to the return; r is the pair
\* (markdown, appliedTransformations) before it
LinePolicyResult(r, s) ==
    IF ~s.stripLineBreaks
    THEN LET held == ReplaceMarkers(ReplaceMarkers(r.markdown, OpenClass), OpenData)
             norm == NormalizeLineEndings(held)
             kept == FilterLines(norm, TRUE)
             md   == IF s.removeEmptyLines THEN kept ELSE held
         IN  [markdown |-> ReplaceTokens(md, {lineBreakPlaceholder}, "\n"),
              applied  |-> IF s.removeEmptyLines THEN norm # kept ELSE r.applied]
    ELSE IF s.removeEmptyLines
    THEN LET norm == NormalizeLineEndings(r.markdown)
             kept == FilterLines(norm, FALSE)
         IN  [markdown |-> kept, applied |-> norm # kept]
    ELSE r

----------------------------------------------------------------------------
(* transformHTML: the parsed document *)

\* a value that is undefined, and a value that is the given text
Undefined == [defined |-> FALSE, value |-> << >>]

Defined(text) == [defined |-> TRUE, value |-> text]

\* doc is the sequence of the elements below doc.body in document order; an
\* element is its tag name, the index of its parent (0 for doc.body), the
\* text of its own text nodes and whether it has the data-preserve attribute
Element(tag, parent, text) ==
    [tag |-> tag, parent |-> parent, text |-> text, preserve |-> FALSE]

\* the parent of an element that element.remove() has taken out of its parent
Removed == -1

\* element j is element a (or doc.body when a = 0) or lies below it
RECURSIVE Within(_, _, _)
Within(d, a, j) ==
    IF j = a THEN TRUE
    ELSE IF j <= 0 THEN FALSE
    ELSE Within(d, a, d[j].parent)

\* the element is in the document
Attached(d, i) == Within(d, 0, i)

\* element.children
Children(d, i) == {j \in DOMAIN d : d[j].parent = i}

\* the element and its descendants
Subtree(d, i) == {j \in DOMAIN d : Within(d, i, j)}

\* s.trim().length > 0
TrimmedNonEmpty(text) == \E k \in DOMAIN text : ~IsWhitespace(text[k])

\* element.textContent && element.textContent.trim().length > 0
HasTextContent(d, i) == \E j \in Subtree(d, i) : TrimmedNonEmpty(d[j].text)

\* doc.querySelectorAll(selector): the elements in the document that match,
\* in document order
QuerySelectorAll(d, Matches(_)) ==
    LET found == {i \in DOMAIN d : Attached(d, i) /\ Matches(d[i])}
    IN  [k \in 1..Cardinality(found) |-> Nth(found, k)]

\* element.remove() for every element of the list
RemoveAll(d, list) ==
    [i \in DOMAIN d |->
        IF \E k \in DOMAIN list : list[k] = i
        THEN [d[i] EXCEPT !.parent = Removed] ELSE d[i]]

\* the paragraph that takes the place of a br: className, data-preserve and
\* a zero-width space as textContent
LineBreakP(br) ==
    [tag |-> "p", parent |-> br.parent, text |-> << ZWSP >>, preserve |-> TRUE]

\* br.parentNode?.replaceChild(lineBreakP, br) for every br of the list
ReplaceAllBr(d, list) ==
    [i \in DOMAIN d |->
        IF \E k \in DOMAIN list : list[k] = i THEN LineBreakP(d[i]) ELSE d[i]]

IsBr(e) == e.tag = "br"

\* LineBreaks with every br removed whatever stripLineBreaks is
LineBreaksRemoved(d, s) == RemoveAll(d, QuerySelectorAll(d, IsBr))

\* if (settings.stripLineBreaks) ... else ...
LineBreaks(d, s) ==
    IF s.stripLineBreaks
    THEN RemoveAll(d, QuerySelectorAll(d, IsBr))
    ELSE ReplaceAllBr(d, QuerySelectorAll(d, IsBr))

\* the tags isElementEmpty never reports as empty
MeaningfulTags == {"img", "hr", "br", "input", "iframe"}

\* const isElementEmpty
RECURSIVE isElementEmpty(_, _)
isElementEmpty(d, i) ==
    IF d[i].tag \in MeaningfulTags THEN FALSE
    ELSE IF d[i].preserve THEN FALSE
    ELSE IF HasTextContent(d, i) THEN FALSE
    ELSE \A c \in Children(d, i) : isElementEmpty(d, c)

\* the selector 'p:not([data-preserve]), div, span, li, ul, ol, table, tr, td, th'
PotentiallyEmpty(e) ==
    \/ e.tag = "p" /\ ~e.preserve
    \/ e.tag \in {"div", "span", "li", "ul", "ol", "table", "tr", "td", "th"}

\* RemoveEmpty with emptyElementsFound set for every element visited
RECURSIVE RemoveEmptyFoundAlways(_, _)
RemoveEmptyFoundAlways(r, list) ==
    IF list = << >> THEN r
    ELSE RemoveEmptyFoundAlways(
             [doc   |-> IF isElementEmpty(r.doc, Head(list))
                        THEN [r.doc EXCEPT ![Head(list)].parent = Removed]
                        ELSE r.doc,
              found |-> TRUE],
             Tail(list))

\* potentialEmptyElements.forEach(...): r is the pair (doc,
\* emptyElementsFound) before the elements of the list are visited
RECURSIVE RemoveEmpty(_, _)
RemoveEmpty(r, list) ==
    IF list = << >> THEN r
    ELSE IF isElementEmpty(r.doc, Head(list))
    THEN RemoveEmpty([doc   |-> [r.doc EXCEPT ![Head(list)].parent = Removed],
                      found |-> TRUE],
                     Tail(list))
    ELSE RemoveEmpty(r, Tail(list))

\* one pass of the while loop
PruningPass(d) ==
    RemoveEmpty([doc |-> d, found |-> FALSE], QuerySelectorAll(d, PotentiallyEmpty))

\* start tag, own text, children and end tag of an element as XMLSerializer
\* writes them; every tag is one token
RECURSIVE SerializeElement(_, _)
SerializeElement(d, i) ==
    LET e    == d[i]
        kids == Children(d, i)
        open == IF e.preserve THEN OpenClass ELSE "<" \o e.tag \o ">"
    IN  IF e.tag \in {"br", "img", "hr", "input"}
        THEN << "<" \o e.tag \o " />" >>
        ELSE << open >> \o e.text
               \o Concat([k \in 1..Cardinality(kids) |->
                              SerializeElement(d, Nth(kids, k))])
               \o << "</" \o e.tag \o ">" >>

\* serializer.serializeToString(doc.body)
SerializeToString(d) ==
    LET kids == Children(d, 0)
    IN  << "<body xmlns=\"http://www.w3.org/1999/xhtml\">" >>
            \o Concat([k \in 1..Cardinality(kids) |-> SerializeElement(d, Nth(kids, k))])
            \o << "</body>" >>

\* the markup of the elements below doc.body
InnerHTML(d) ==
    LET kids == Children(d, 0)
    IN  Concat([k \in 1..Cardinality(kids) |-> SerializeElement(d, Nth(kids, k))])

\* a value read where a boolean is expected
Truthy(v) == v.defined /\ v.value # << >>

\* property `name` of a value that is a string
StringProperty(text, name) ==
    IF name = "length" THEN Defined(<< Len(text) >>) ELSE Undefined

----------------------------------------------------------------------------
(* The heading context of the cursor *)

\* getCurrentHeadingLevel: the nearest line at or above the cursor that matches
\* /^(#{1,6})\s/; lines and the cursor are numbered from 1 here
RECURSIVE HeadingLevelFrom(_, _)
HeadingLevelFrom(lines, line) ==
    IF line < 1 THEN 0
    ELSE IF HeadingAt(lines[line], 1) THEN HashRun(lines[line], 1)
    ELSE HeadingLevelFrom(lines, line - 1)

\* getCurrentHeadingLevel with the scan started on the line above the cursor
getCurrentHeadingLevelAbove(ed) == HeadingLevelFrom(ed.lines, ed.cursor - 1)

getCurrentHeadingLevel(ed) == HeadingLevelFrom(ed.lines, ed.cursor)

----------------------------------------------------------------------------
(* Inputs *)

\* a heading line of the given level: '#'.repeat(level) + ' a'
Heading(level) == Hashes(level) \o <<" ", "a">>

\* every text of 1..n lines drawn from `vocabulary`
Texts(vocabulary, n) ==
    {Join(ls) : ls \in UNION {[1..k -> vocabulary] : k \in 1..n}}

\* "# Heading 1" ... "###### Heading 6", the block of the documented examples
H1toH6 == [l \in 1..MaxLevel |-> Heading(l)]

\* the documented example: the block twice, a blank line between
TwoBlocks == Join(H1toH6 \o << << >> >> \o H1toH6)

\* the documented example that must stay unchanged under maxHeadingLevel 2
TwoBlocksFromH2 == Join(Tail(H1toH6) \o << << >> >> \o Tail(H1toH6))

\* '# Title\n### Detail\n'
TitleDetail == Join(<< Heading(1), Heading(3), << >> >>)

\* the record the plugin keeps in this.settings, restricted to the fields the
\* paste pipeline is handed; convertToSingleSpaced, removeEmptyElements and
\* htmlRegexReplacements start at their DEFAULT_SETTINGS values
Settings(po, cc, mhl, chl, slb, rel, rx) ==
    [pasteOverride             |-> po,
     contextualCascade         |-> cc,
     maxHeadingLevel           |-> mhl,
     cascadeHeadingLevels      |-> chl,
     stripLineBreaks           |-> slb,
     convertToSingleSpaced     |-> FALSE,
     removeEmptyLines          |-> rel,
     removeEmptyElements       |-> FALSE,
     htmlRegexReplacements     |-> << >>,
     markdownRegexReplacements |-> rx]

Replacement(p, r) == [pattern |-> p, replacement |-> r]

\* pattern lists: none, a pattern undone by the next, and an invalid pattern
\* followed by a valid one
RegexLists ==
    { << >>,
      << Replacement("a", <<"b">>), Replacement("b", <<"a">>) >>,
      << Replacement("(", <<"x">>), Replacement("a", <<"b">>) >> }

\* a fence line of the given character, and one with a language identifier
Fence(c) == << c, c, c >>

FenceWithLanguage(c) == Fence(c) \o <<"j", "s">>

\* an editor with no active Markdown view, and documents with the cursor on
\* their last line: no heading above it, an H2 above it, an open fence above
\* it (backticks with a language identifier), a closed fence above it
NoView == [view |-> FALSE, lines |-> << >>, cursor |-> 0]

Document(lines) == [view |-> TRUE, lines |-> lines, cursor |-> Len(lines)]

Editors ==
    { NoView,
      Document(<< <<"a">> >>),
      Document(<< Heading(2), <<"a">> >>),
      Document(<< FenceWithLanguage(Backtick), <<"a">> >>),
      Document(<< Fence(Backtick), <<"a">>, Fence(Backtick), <<"a">> >>) }

\* a DataTransfer: which types it holds and its text/plain payload; the
\* text/html payload does not reach the Markdown stage (see DoPaste)
Clipboard(types, plain) == [present |-> TRUE, types |-> types, plain |-> plain]

\* event.clipboardData === null
NoClipboard == [present |-> FALSE, types |-> {}, plain |-> << >>]

PasteVocabulary == { Heading(1), Heading(3), <<"a">>, << >> }

PasteTexts == Texts(PasteVocabulary, MaxLines)

Clipboards ==
    { NoClipboard, Clipboard({}, << >>), Clipboard({"text/html"}, << >>),
      Clipboard({"text/html", "text/plain"}, <<"a">>) }
        \cup { Clipboard({"text/plain"}, p) : p \in PasteTexts }

\* htmlToMarkdown is Obsidian's; doPaste hands it `result.html`, which is
\* undefined because transformHTML returns a string: it may throw or return
\* any text
HtmlToMarkdownOutcomes ==
    { [throws |-> TRUE, text |-> << >>] }
        \cup { [throws |-> FALSE, text |-> t] : t \in Texts(PasteVocabulary, 1) }

----------------------------------------------------------------------------
(* State *)

\* what transformMarkdown returned: { markdown, appliedTransformations }
Result(md, flag) == [markdown |-> md, appliedTransformations |-> flag]

NoResult == Result(<< >>, FALSE)

\* the locals of a call of transformMarkdown that has not started
NoCall ==
    /\ originalMarkdown = << >>
    /\ contextLevel = 0
    /\ escapeMarkdown = FALSE
    /\ markdown = << >>
    /\ appliedTransformations = FALSE
    /\ pos = 1
    /\ out = << >>
    /\ delta = -1
    /\ cascading = FALSE
    /\ log = << >>
    /\ call = 1
    /\ firstResult = NoResult

\* no paste has been handled
NoPaste ==
    /\ origin = "none"
    /\ clipboardData = NoClipboard
    /\ appliedHTMLTransformations = FALSE
    /\ inserted = << >>
    /\ doPasteReturn = "none"
    /\ defaultPrevented = FALSE
    /\ caught = FALSE

domLocals == << parsed, doc, emptyElementsFound, converted >>

\* no document has been parsed
NoDocument ==
    /\ parsed = << >>
    /\ doc = << >>
    /\ emptyElementsFound = FALSE
    /\ converted = Undefined

\* transformHTML is not running
NoHTMLCall ==
    /\ originalHTML = << >>
    /\ html = << >>
    /\ htmlPc = "idle"
    /\ NoDocument

\* the plugin is loaded and idle
Init ==
    /\ settings \in { Settings(po, cc, mhl, chl, slb, rel, rx) :
                        po \in BOOLEAN, cc \in BOOLEAN, mhl \in {1, 3},
                        chl \in BOOLEAN, slb \in BOOLEAN, rel \in BOOLEAN,
                        rx \in RegexLists }
    /\ editor \in Editors
    /\ pc = "idle"
    /\ NoPaste
    /\ NoCall
    /\ NoHTMLCall

----------------------------------------------------------------------------
(* transformMarkdown, stage by stage *)

callLocals == << originalMarkdown, contextLevel, escapeMarkdown, markdown,
                 appliedTransformations, pos, out, delta, cascading, log >>

pasteLocals == << origin, clipboardData, appliedHTMLTransformations, inserted,
                  doPasteReturn, defaultPrevented, caught >>

htmlLocals == << originalHTML, html, htmlPc, parsed, doc, emptyElementsFound,
                 converted >>

\* entry of transformMarkdown(md, settings, ctx, esc)
CallStart(md, ctx, esc) ==
    /\ originalMarkdown' = md
    /\ contextLevel' = ctx
    /\ escapeMarkdown' = esc
    /\ markdown' = md
    /\ appliedTransformations' = FALSE
    /\ pos' = 1
    /\ out' = << >>
    /\ delta' = -1
    /\ cascading' = FALSE
    /\ log' = << >>

\* AfterPatterns with the heading branch taken whatever escapeMarkdown is
AfterPatternsHeadings(esc) == "headings"

\* if (!escapeMarkdown) ... else ...: the stage that follows the patterns
AfterPatterns(esc) == IF esc THEN "escape" ELSE "headings"

\* the regex replacement loop, then the choice between the heading branch and
\* the escape branch
ApplyRegexReplacements ==
    /\ pc = "regex"
    /\ LET r == RegexReplacements([markdown |-> markdown,
                                   applied  |-> appliedTransformations],
                                  settings.markdownRegexReplacements)
       IN  /\ markdown' = r.markdown
           /\ appliedTransformations' = r.applied
    /\ pc' = AfterPatterns(escapeMarkdown)
    /\ UNCHANGED << settings, editor, htmlLocals, pasteLocals, call, firstResult,
                    originalMarkdown, contextLevel, escapeMarkdown,
                    pos, out, delta, cascading, log >>

\* one invocation of a heading callback on the match at index i: the level is
\* computed, logged, the flag assigned, and '#'.repeat(newLevel) + ' ' returned
HeadingCallback(i, r) ==
    LET currentLevel == HashRun(markdown, i)
    IN  /\ delta' = r.delta
        /\ cascading' = r.cascading
        /\ log' = Append(log, [currentLevel |-> currentLevel, newLevel |-> r.newLevel])
        /\ appliedTransformations' =
               HeadingFlag(appliedTransformations, currentLevel, r.newLevel)
        /\ out' = out \o SubSeq(markdown, pos, i - 1) \o Hashes(r.newLevel) \o <<" ">>
        /\ pos' = i + currentLevel + 1
        /\ UNCHANGED << settings, editor, htmlLocals, pasteLocals, call, firstResult, pc,
                        originalMarkdown, contextLevel, escapeMarkdown, markdown >>

\* the callback of the contextual cascade branch
ContextualCascadeCallback ==
    /\ pc = "headings"
    /\ HeadingMode(settings, contextLevel) = "contextual"
    /\ LET i == NextHeading(markdown, pos)
       IN  /\ i # 0
           /\ HeadingCallback(i, ContextualCascadeLevel(HashRun(markdown, i), contextLevel,
                                      [delta |-> delta, cascading |-> cascading]))

\* the callback of the maxHeadingLevel branch
MaxHeadingLevelCallback ==
    /\ pc = "headings"
    /\ HeadingMode(settings, contextLevel) = "max"
    /\ LET i == NextHeading(markdown, pos)
       IN  /\ i # 0
           /\ HeadingCallback(i, MaxHeadingLevelLevel(HashRun(markdown, i), settings,
                                      [delta |-> delta, cascading |-> cascading]))

\* String.replace returns (no match is left), or no heading branch runs
HeadingScanEnd ==
    /\ pc = "headings"
    /\ HeadingMode(settings, contextLevel) = "none" \/ NextHeading(markdown, pos) = 0
    /\ markdown' = IF HeadingMode(settings, contextLevel) = "none" THEN markdown
                   ELSE out \o SubSeq(markdown, pos, Len(markdown))
    /\ pc' = "lines"
    /\ UNCHANGED << settings, editor, htmlLocals, pasteLocals, call, firstResult,
                    originalMarkdown, contextLevel, escapeMarkdown,
                    appliedTransformations, pos, out, delta, cascading, log >>

\* the escape branch
EscapeMarkdown ==
    /\ pc = "escape"
    /\ markdown' = EscapeChain(markdown)
    /\ appliedTransformations' = (markdown # markdown')
    /\ pc' = "lines"
    /\ UNCHANGED << settings, editor, htmlLocals, pasteLocals, call, firstResult,
                    originalMarkdown, contextLevel, escapeMarkdown,
                    pos, out, delta, cascading, log >>

\* line-break markers and empty lines, then the return
LinePolicy ==
    /\ pc = "lines"
    /\ LET r == LinePolicyResult([markdown |-> markdown,
                                  applied  |-> appliedTransformations], settings)
       IN  /\ markdown' = r.markdown
           /\ appliedTransformations' = r.applied
    /\ pc' = "returned"
    /\ UNCHANGED << settings, editor, htmlLocals, pasteLocals, call, firstResult,
                    originalMarkdown, contextLevel, escapeMarkdown,
                    pos, out, delta, cascading, log >>

----------------------------------------------------------------------------
(* doPaste and its callers *)

\* ShouldInsert with the selection replaced whatever the flags
ShouldInsertAlways(htmlFlag, markdownFlag) == TRUE

\* doPaste: the condition under which the selection is replaced
ShouldInsert(htmlFlag, markdownFlag) == htmlFlag \/ markdownFlag

\* PreventsDefault with the default paste prevented whatever doPaste returned
PreventsDefaultAlways(returned) == TRUE

\* onPaste: whether event.preventDefault() is called, given what doPaste returned
PreventsDefault(returned) == returned

\* CaughtReturn with the catch block reporting success
CaughtReturnTrue == TRUE

\* doPaste: the value the catch block returns
CaughtReturn == FALSE

\* doPaste returns `value` to the caller `from`; onPaste then decides about
\* event.preventDefault(), the two commands ignore the value
Return(from, value) ==
    /\ doPasteReturn' = (IF value THEN "true" ELSE "false")
    /\ defaultPrevented' = (from = "editor-paste" /\ PreventsDefault(value))
    /\ pc' = "idle"

\* doPaste(clip, esc) called from `from`, up to the call of transformMarkdown
DoPaste(from, clip, esc) ==
    /\ origin' = from
    /\ clipboardData' = clip
    /\ inserted' = << >>
    /\ appliedHTMLTransformations' = FALSE
    /\ UNCHANGED << settings, editor, htmlLocals, call, firstResult >>
    /\ IF ~editor.view
       THEN /\ Return(from, FALSE)
            /\ caught' = FALSE
            /\ CallStart(<< >>, 0, FALSE)
       ELSE IF "text/html" \in clip.types
       THEN \E o \in HtmlToMarkdownOutcomes :
                IF o.throws
                THEN /\ Return(from, CaughtReturn)
                     /\ caught' = TRUE
                     /\ CallStart(<< >>, 0, FALSE)
                ELSE /\ CallStart(o.text,
                                  IF settings.contextualCascade
                                  THEN getCurrentHeadingLevel(editor) ELSE 0,
                                  esc)
                     /\ doPasteReturn' = "none"
                     /\ defaultPrevented' = FALSE
                     /\ caught' = FALSE
                     /\ pc' = "regex"
       ELSE IF "text/plain" \in clip.types
       THEN /\ CallStart(clip.plain,
                         IF settings.contextualCascade
                         THEN getCurrentHeadingLevel(editor) ELSE 0,
                         esc)
            /\ doPasteReturn' = "none"
            /\ defaultPrevented' = FALSE
            /\ caught' = FALSE
            /\ pc' = "regex"
       ELSE /\ Return(from, FALSE)
            /\ caught' = FALSE
            /\ CallStart(<< >>, 0, FALSE)

\* the handler of the editor-paste event; a behaviour follows one paste from
\* the idle plugin to its end
OnPaste ==
    /\ pc = "idle"
    /\ origin = "none"
    /\ \E clip \in Clipboards :
           IF settings.pasteOverride /\ clip.present
           THEN DoPaste("editor-paste", clip, FALSE)
           ELSE /\ origin' = "editor-paste"
                /\ clipboardData' = clip
                /\ inserted' = << >>
                /\ appliedHTMLTransformations' = FALSE
                /\ doPasteReturn' = "none"
                /\ defaultPrevented' = FALSE
                /\ caught' = FALSE
                /\ pc' = "idle"
                /\ CallStart(<< >>, 0, FALSE)
                /\ UNCHANGED << settings, editor, htmlLocals, call, firstResult >>

\* a command callback: getClipboardData, then doPaste when it returned a
\* DataTransfer (one that holds text/html or text/plain)
Command(name, esc) ==
    /\ pc = "idle"
    /\ origin = "none"
    /\ \E clip \in Clipboards :
           IF clip.present /\ clip.types # {}
           THEN DoPaste(name, clip, esc)
           ELSE /\ origin' = name
                /\ clipboardData' = clip
                /\ inserted' = << >>
                /\ appliedHTMLTransformations' = FALSE
                /\ doPasteReturn' = "none"
                /\ defaultPrevented' = FALSE
                /\ caught' = FALSE
                /\ pc' = "idle"
                /\ CallStart(<< >>, 0, FALSE)
                /\ UNCHANGED << settings, editor, htmlLocals, call, firstResult >>

\* the command 'Reformat and Paste'
ReformatAndPaste == Command("reformat-and-paste", FALSE)

\* the command 'Paste with Escaped Markdown'
PasteWithEscapedMarkdown == Command("paste-with-escaped-markdown", TRUE)

\* doPaste after transformMarkdown has returned
DoPasteFinish ==
    /\ pc = "returned"
    /\ origin # "none"
    /\ IF ShouldInsert(appliedHTMLTransformations, appliedTransformations)
       THEN /\ inserted' = Append(inserted, markdown)
            /\ Return(origin, TRUE)
       ELSE /\ inserted' = inserted
            /\ Return(origin, FALSE)
    /\ UNCHANGED << settings, editor, htmlLocals, origin, clipboardData,
                    appliedHTMLTransformations, call, firstResult, callLocals,
                    caught >>

Next ==
    \/ OnPaste
    \/ ReformatAndPaste
    \/ PasteWithEscapedMarkdown
    \/ ApplyRegexReplacements
    \/ ContextualCascadeCallback
    \/ MaxHeadingLevelCallback
    \/ HeadingScanEnd
    \/ EscapeMarkdown
    \/ LinePolicy
    \/ DoPasteFinish

Spec == Init /\ [][Next]_vars

----------------------------------------------------------------------------
(* transformMarkdown called directly *)

\* lines of the texts given to transformMarkdown: a heading of each level,
\* text, an empty line, and a '#' that ends its line
HeadingVocabulary == { Heading(l) : l \in 1..MaxLevel } \cup { <<"a">>, << >>, <<"#">> }

HeadingTexts ==
    Texts(HeadingVocabulary, MaxLines) \cup { TwoBlocks, TwoBlocksFromH2, TitleDetail }

\* the state at the entry of transformMarkdown(md, s, ctx, esc)
CalledWith(md, s, ctx, esc) ==
    /\ settings = s
    /\ editor = NoView
    /\ NoPaste
    /\ NoHTMLCall
    /\ pc = "regex"
    /\ originalMarkdown = md
    /\ contextLevel = ctx
    /\ escapeMarkdown = esc
    /\ markdown = md
    /\ appliedTransformations = FALSE
    /\ pos = 1
    /\ out = << >>
    /\ delta = -1
    /\ cascading = FALSE
    /\ log = << >>
    /\ call = 1
    /\ firstResult = NoResult

\* the state at the entry of transformMarkdown(md, s, ctx): escapeMarkdown
\* takes its default
Called(md, s, ctx) == CalledWith(md, s, ctx, FALSE)

\* every heading configuration and context level; no patterns, and the line
\* policy of DEFAULT_SETTINGS (line breaks and empty lines kept)
InitTransform ==
    \E md \in HeadingTexts, ctx \in 0..MaxLevel, cc \in BOOLEAN,
       mhl \in 1..MaxLevel, chl \in BOOLEAN :
        Called(md, Settings(TRUE, cc, mhl, chl, FALSE, FALSE, << >>), ctx)

NextTransform ==
    \/ ApplyRegexReplacements
    \/ ContextualCascadeCallback
    \/ MaxHeadingLevelCallback
    \/ HeadingScanEnd
    \/ LinePolicy

SpecTransform == InitTransform /\ [][NextTransform]_vars

\* the returned text is given to transformMarkdown again, same settings
ApplyAgain ==
    /\ pc = "returned"
    /\ call = 1
    /\ firstResult' = Result(markdown, appliedTransformations)
    /\ call' = 2
    /\ CallStart(markdown, contextLevel, escapeMarkdown)
    /\ pc' = "regex"
    /\ UNCHANGED << settings, editor, htmlLocals, pasteLocals >>

\* the simple cap: the contextual cascade not active, maxHeadingLevel > 1,
\* cascadeHeadingLevels off
InitTwice ==
    \E md \in HeadingTexts, ctx \in 0..MaxLevel, cc \in BOOLEAN,
       mhl \in 2..MaxLevel, slb \in BOOLEAN, rel \in BOOLEAN :
        /\ ~(cc /\ ctx > 0)
        /\ Called(md, Settings(TRUE, cc, mhl, FALSE, slb, rel, << >>), ctx)

NextTwice ==
    \/ ApplyRegexReplacements
    \/ MaxHeadingLevelCallback
    \/ HeadingScanEnd
    \/ LinePolicy
    \/ ApplyAgain

SpecTwice == InitTwice /\ [][NextTwice]_vars

----------------------------------------------------------------------------
(* transformMarkdown called directly: line breaks and empty lines *)

\* lines of the texts given to transformMarkdown: text, an empty line, a line
\* of one space, a line that is a line-break marker, a marker inside text, the
\* placeholder text itself, a line that ends in a carriage return, and a
\* marker start tag that is never closed
LineVocabulary ==
    { <<"a">>, << >>, <<" ">>, MarkerClass, <<"a">> \o MarkerData \o <<"a">>,
      <<lineBreakPlaceholder>>, <<"a", "\r">>, <<OpenClass, "a">> }

\* 'A\n\n\n\nB\n\nC'
SpacedExample == Join(<< <<"A">>, << >>, << >>, << >>, <<"B">>, << >>, <<"C">> >>)

LineTexts == Texts(LineVocabulary, MaxLines) \cup { SpacedExample }

\* every line policy, with and without escaping; no patterns, no heading
\* adjustment (maxHeadingLevel 1, contextual cascade off)
InitLines ==
    \E md \in LineTexts, slb \in BOOLEAN, rel \in BOOLEAN, css \in BOOLEAN,
       esc \in BOOLEAN :
        CalledWith(md,
                   [Settings(TRUE, FALSE, 1, FALSE, slb, rel, << >>)
                       EXCEPT !.convertToSingleSpaced = css],
                   0, esc)

NextLines ==
    \/ ApplyRegexReplacements
    \/ HeadingScanEnd
    \/ EscapeMarkdown
    \/ LinePolicy

SpecLines == InitLines /\ [][NextLines]_vars

----------------------------------------------------------------------------
(* transformMarkdown called directly: escaping *)

\* `a_b`
CodeSpan == <<Backtick, "a", "_", "b", Backtick>>

\* lines of the texts given to transformMarkdown: a line for each construct
\* the escape chain looks for, a code span, a marker paragraph (HTML tags),
\* text and an empty line
EscapeVocabulary ==
    { Heading(1), Heading(3), <<"a">>, << >>,
      <<"*", "a", "*">>, <<"_", "_", "a">>, CodeSpan,
      <<"-", " ", "a">>, <<"1", ".", " ", "a">>, <<"!", "[", "a", "]">>,
      <<">", " ", "a">>, <<"-", "-", "-">>, <<"a", "|", "a">>,
      <<"-", " ", "[", " ", "]">>, MarkerClass }

EscapeTexts == Texts(EscapeVocabulary, MaxLines)

\* with and without escaping, under every heading mode; no patterns, and the
\* line policy of DEFAULT_SETTINGS
InitEscape ==
    \E md \in EscapeTexts, ctx \in {0, 2}, cc \in BOOLEAN, mhl \in {1, 3},
       chl \in BOOLEAN, esc \in BOOLEAN :
        CalledWith(md, Settings(TRUE, cc, mhl, chl, FALSE, FALSE, << >>), ctx, esc)

NextEscape ==
    \/ ApplyRegexReplacements
    \/ ContextualCascadeCallback
    \/ MaxHeadingLevelCallback
    \/ HeadingScanEnd
    \/ EscapeMarkdown
    \/ LinePolicy

SpecEscape == InitEscape /\ [][NextEscape]_vars

----------------------------------------------------------------------------
(* transformMarkdown called twice on one text, one argument changed *)

ModeVocabulary == { Heading(1), Heading(2), Heading(4), <<"a">> }

ModeTexts == Texts(ModeVocabulary, MaxLines) \cup { TitleDetail }

ModeContextLevels == {0, 1, 3}

ModeMaxHeadingLevels == {1, 2, 4}

InitModes ==
    \E md \in ModeTexts, ctx \in ModeContextLevels, cc \in BOOLEAN,
       mhl \in ModeMaxHeadingLevels, chl \in BOOLEAN :
        Called(md, Settings(TRUE, cc, mhl, chl, FALSE, FALSE, << >>), ctx)

\* the contextual cascade was active: the same text and context level again,
\* with another maxHeadingLevel / cascadeHeadingLevels
CallAgainOtherMax ==
    /\ pc = "returned"
    /\ call = 1
    /\ settings.contextualCascade /\ contextLevel > 0
    /\ \E mhl \in ModeMaxHeadingLevels, chl \in BOOLEAN :
        /\ << mhl, chl >> # << settings.maxHeadingLevel, settings.cascadeHeadingLevels >>
        /\ settings' = [settings EXCEPT !.maxHeadingLevel = mhl,
                                        !.cascadeHeadingLevels = chl]
    /\ firstResult' = Result(markdown, appliedTransformations)
    /\ call' = 2
    /\ CallStart(originalMarkdown, contextLevel, escapeMarkdown)
    /\ pc' = "regex"
    /\ UNCHANGED << editor, htmlLocals, pasteLocals >>

\* contextualCascade was off: the same text and settings again, with another
\* context level
CallAgainOtherContext ==
    /\ pc = "returned"
    /\ call = 1
    /\ ~settings.contextualCascade
    /\ \E ctx \in ModeContextLevels :
        /\ ctx # contextLevel
        /\ CallStart(originalMarkdown, ctx, escapeMarkdown)
    /\ firstResult' = Result(markdown, appliedTransformations)
    /\ call' = 2
    /\ pc' = "regex"
    /\ UNCHANGED << settings, editor, htmlLocals, pasteLocals >>

NextModes ==
    \/ ApplyRegexReplacements
    \/ ContextualCascadeCallback
    \/ MaxHeadingLevelCallback
    \/ HeadingScanEnd
    \/ LinePolicy
    \/ CallAgainOtherMax
    \/ CallAgainOtherContext

SpecModes == InitModes /\ [][NextModes]_vars

----------------------------------------------------------------------------
(* getCurrentHeadingLevel called directly *)

\* lines of the documents: a heading of each level, seven '#', a '#' run not
\* followed by whitespace, a '#' that ends its line, an indented '#', a '#'
\* followed by a tab, text, and an empty line
DocumentVocabulary ==
    { Heading(l) : l \in 1..MaxLevel }
        \cup { Hashes(MaxLevel + 1) \o <<" ", "a">>, <<"#", "a">>, <<"#">>,
               <<" ", "#", " ", "a">>, <<"#", "\t", "a">>, <<"a">>, << >> }

\* a document with the cursor on the given line
DocumentAt(lines, line) == [view |-> TRUE, lines |-> lines, cursor |-> line]

\* every document of 1..MaxLines lines, the cursor on any of its lines
Cursors ==
    UNION { { DocumentAt(ls, line) : line \in 1..Len(ls) } :
              ls \in UNION {[1..k -> DocumentVocabulary] : k \in 1..MaxLines} }

InitContext ==
    /\ settings = Settings(TRUE, TRUE, 1, FALSE, FALSE, FALSE, << >>)
    /\ editor \in Cursors
    /\ pc = "context"
    /\ NoPaste
    /\ NoCall
    /\ NoHTMLCall

\* contextLevel = this.getCurrentHeadingLevel(editor)
ReadHeadingLevel ==
    /\ pc = "context"
    /\ contextLevel' = getCurrentHeadingLevel(editor)
    /\ pc' = "idle"
    /\ UNCHANGED << settings, editor, htmlLocals, pasteLocals, originalMarkdown,
                    escapeMarkdown, markdown, appliedTransformations, pos, out,
                    delta, cascading, log, call, firstResult >>

NextContext == ReadHeadingLevel

SpecContext == InitContext /\ [][NextContext]_vars

----------------------------------------------------------------------------
(* transformHTML from the parsed document on, and doPaste reading its result *)

\* Most elements of an enumerated document.
MaxNodes == 3

\* tag and own text of the elements of the documents: a div (a tag of the
\* pruning selector) without text, with white space and with text, a b (not
\* in the selector) without and with text, a p, a br and an img
ElementShapes ==
    { <<"div", << >> >>, <<"div", <<" ">> >>, <<"div", <<"a">> >>,
      <<"b", << >> >>, <<"b", <<"a">> >>, <<"p", << >> >>,
      <<"br", << >> >>, <<"img", << >> >> }

\* what the HTML parser builds: elements in document order, nothing below a
\* br or an img, and nothing but phrasing content below a p
WellFormed(d) ==
    \A i \in DOMAIN d :
        /\ d[i].parent < i
        /\ i > 1 => Within(d, d[i].parent, i - 1)
        /\ d[i].parent > 0 =>
              /\ d[d[i].parent].tag \notin {"br", "img"}
              /\ d[d[i].parent].tag = "p" => d[i].tag \in {"b", "br", "img"}

\* the documents of at most `most` elements
DocumentsOver(shapes, most) ==
    UNION { { d \in [1..n -> { Element(sh[1], parent, sh[2]) :
                                  sh \in shapes, parent \in 0..(n - 1) }] :
                WellFormed(d) } : n \in 0..most }

Documents == DocumentsOver(ElementShapes, MaxNodes)

\* doPaste has taken the text/html branch of an editor paste and called
\* transformHTML, whose DOMParser has returned the document d
HTMLParsed(d, slb, ree) ==
        /\ settings = [Settings(TRUE, FALSE, 1, FALSE, slb, FALSE, << >>)
                           EXCEPT !.removeEmptyElements = ree]
        /\ editor = Document(<< <<"a">> >>)
        /\ origin = "editor-paste"
        /\ clipboardData = Clipboard({"text/html"}, << >>)
        /\ appliedHTMLTransformations = FALSE
        /\ inserted = << >>
        /\ doPasteReturn = "none"
        /\ defaultPrevented = FALSE
        /\ caught = FALSE
        /\ pc = "idle"
        /\ NoCall
        /\ originalHTML = InnerHTML(d)
        /\ html = InnerHTML(d)
        /\ htmlPc = "parsed"
        /\ parsed = d
        /\ doc = d
        /\ emptyElementsFound = FALSE
        /\ converted = Undefined

InitHTML ==
    \E d \in Documents, slb \in BOOLEAN, ree \in BOOLEAN : HTMLParsed(d, slb, ree)

notHtmlLocals == << settings, editor, origin, clipboardData, inserted,
                    doPasteReturn, defaultPrevented, caught, pc, callLocals,
                    call, firstResult, originalHTML, parsed >>

\* transformHTML: the line-break step, up to `let emptyElementsFound = true`
ProcessLineBreaks ==
    /\ htmlPc = "parsed"
    /\ doc' = LineBreaks(doc, settings)
    /\ emptyElementsFound' = settings.removeEmptyElements
    /\ htmlPc' = IF settings.removeEmptyElements THEN "prune" ELSE "serialize"
    /\ UNCHANGED << notHtmlLocals, html, converted, appliedHTMLTransformations >>

\* transformHTML: one iteration of while (emptyElementsFound)
PruneOnce ==
    /\ htmlPc = "prune"
    /\ emptyElementsFound
    /\ LET r == PruningPass(doc)
       IN  /\ doc' = r.doc
           /\ emptyElementsFound' = r.found
           /\ htmlPc' = IF r.found THEN "prune" ELSE "serialize"
    /\ UNCHANGED << notHtmlLocals, html, converted, appliedHTMLTransformations >>

\* transformHTML: return serializer.serializeToString(doc.body)
ReturnHTML ==
    /\ htmlPc = "serialize"
    /\ html' = SerializeToString(doc)
    /\ htmlPc' = "returned"
    /\ UNCHANGED << notHtmlLocals, doc, emptyElementsFound, converted,
                    appliedHTMLTransformations >>

\* doPaste: htmlToMarkdown(result.html) and
\* appliedHTMLTransformations = result.appliedTransformations, where result
\* is the string transformHTML returned
ReadResult ==
    /\ htmlPc = "returned"
    /\ converted' = StringProperty(html, "html")
    /\ appliedHTMLTransformations' =
           Truthy(StringProperty(html, "appliedTransformations"))
    /\ htmlPc' = "converted"
    /\ UNCHANGED << notHtmlLocals, html, doc, emptyElementsFound >>

NextHTML ==
    \/ ProcessLineBreaks
    \/ PruneOnce
    \/ ReturnHTML
    \/ ReadResult

SpecHTML == InitHTML /\ [][NextHTML]_vars

\* Most elements of a document of the pruning loop.
MaxPrunedNodes == 2

\* the documents of the pruning loop: an element of the selector without and
\* with text, an element outside the selector, a br
PruningShapes ==
    { <<"div", << >> >>, <<"div", <<"a">> >>, <<"b", << >> >>, <<"br", << >> >> }

InitPruning ==
    \E d \in DocumentsOver(PruningShapes, MaxPrunedNodes), slb \in BOOLEAN :
        HTMLParsed(d, slb, TRUE)

\* transformHTML with removeEmptyElements on; it runs to completion once
\* called: no step of it waits
SpecPruning == InitPruning /\ [][NextHTML]_vars /\ WF_vars(NextHTML)

----------------------------------------------------------------------------
(* transformMarkdown called directly: headings in every order *)

HierarchyVocabulary == { Heading(1), Heading(2), Heading(3), Heading(6) }

\* one line more than the other texts, so that a heading can stand before
\* and another after the heading that starts a cascade
HierarchyTexts == Texts(HierarchyVocabulary, MaxLines + 1)

InitHierarchy ==
    \E md \in HierarchyTexts, ctx \in {0, 2, 5}, cc \in BOOLEAN,
       mhl \in {1, 3, 6}, chl \in BOOLEAN :
        Called(md, Settings(TRUE, cc, mhl, chl, FALSE, FALSE, << >>), ctx)

SpecHierarchy == InitHierarchy /\ [][NextTransform]_vars

----------------------------------------------------------------------------
(* The pattern lists of both transformers *)

\* Longest enumerated pattern list.
MaxPatterns == 3

\* a valid pattern, a valid pattern that matches what the first one writes,
\* and a pattern that does not compile
Patterns ==
    { Replacement("a", <<"b">>), Replacement("b", <<"c", "c">>),
      Replacement("(", <<"x">>) }

PatternLists == UNION {[1..n -> Patterns] : n \in 0..MaxPatterns}

PatternTexts == { <<"a">>, <<"a", "b", "a">> }

\* the state at the entry of transformHTML(text, settings)
HTMLCalled(text) ==
    /\ originalHTML = text
    /\ html = text
    /\ htmlPc = "regex"
    /\ NoDocument

\* transformHTML: the regex replacement loop, up to the DOMParser
ApplyHtmlRegexReplacements ==
    /\ htmlPc = "regex"
    /\ html' = HtmlRegexReplacements(html, settings.htmlRegexReplacements)
    /\ htmlPc' = "parse"
    /\ UNCHANGED << settings, editor, pasteLocals, callLocals, pc, call,
                    firstResult, originalHTML, domLocals >>

\* both transformers called directly, each with its own pattern list; no
\* heading adjustment, no escaping, the line policy of DEFAULT_SETTINGS
InitPatterns ==
    \E md \in PatternTexts, text \in PatternTexts,
       rx \in PatternLists, hx \in PatternLists :
        /\ settings = [Settings(TRUE, FALSE, 1, FALSE, FALSE, FALSE, rx)
                           EXCEPT !.htmlRegexReplacements = hx]
        /\ editor = NoView
        /\ NoPaste
        /\ HTMLCalled(text)
        /\ pc = "regex"
        /\ originalMarkdown = md
        /\ contextLevel = 0
        /\ escapeMarkdown = FALSE
        /\ markdown = md
        /\ appliedTransformations = FALSE
        /\ pos = 1
        /\ out = << >>
        /\ delta = -1
        /\ cascading = FALSE
        /\ log = << >>
        /\ call = 1
        /\ firstResult = NoResult

NextPatterns ==
    \/ ApplyHtmlRegexReplacements
    \/ ApplyRegexReplacements
    \/ HeadingScanEnd
    \/ LinePolicy

SpecPatterns == InitPatterns /\ [][NextPatterns]_vars

----------------------------------------------------------------------------
(* Properties *)

\* the levels the heading callbacks read and wrote, in scan order
OldLevels == [i \in DOMAIN log |-> log[i].currentLevel]

NewLevels == [i \in DOMAIN log |-> log[i].newLevel]

\* the documented example after adjustment: the block with the given levels,
\* twice, the blank line between kept unless empty lines are removed
BlockOf(levels) == [i \in DOMAIN levels |-> Heading(levels[i])]

TwoBlocksOf(levels) ==
    IF settings.removeEmptyLines
    THEN Join(BlockOf(levels) \o BlockOf(levels))
    ELSE Join(BlockOf(levels) \o << << >> >> \o BlockOf(levels))

\* C1: when the heading scan changed the level of at least one heading, the
\* call returns appliedTransformations = true.
C1_FlagTrueWhenAHeadingChanged ==
    (pc = "returned" /\ \E i \in DOMAIN log : log[i].newLevel # log[i].currentLevel)
        => appliedTransformations

\* C2: the call returns appliedTransformations = true if and only if the
\* returned text differs from the text it was given.
C2_FlagIffTextDiffers ==
    pc = "returned" => (appliedTransformations <=> markdown # originalMarkdown)

\* C3: within a call, once a stage has left the flag true, the stages after it
\* (heading adjustment, escaping, line policy) never set it back to false.
C3_FlagIsNeverReset ==
    [][(pc \in {"headings", "escape", "lines"} /\ appliedTransformations)
           => appliedTransformations']_vars

\* C4: doPaste replaces the selection exactly when one of the two flags is
\* true, at most once, and returns true exactly when it did; before it returns
\* nothing is inserted.
C4_InsertIffFlag ==
    /\ Len(inserted) <= 1
    /\ doPasteReturn = "none" => inserted = << >>
    /\ doPasteReturn # "none" =>
           /\ Len(inserted) = 1 <=> (appliedHTMLTransformations \/ appliedTransformations)
           /\ doPasteReturn = "true" <=> Len(inserted) = 1
           /\ Len(inserted) = 1 => inserted[1] = markdown

\* C4 witness: a doPaste that inserted the transformed text and returned true
C4_Inserted ==
    /\ doPasteReturn = "true"
    /\ Len(inserted) = 1
    /\ appliedTransformations
    /\ inserted[1] # originalMarkdown

\* C5: an editor-paste event handled with pasteOverride enabled ends with
\* preventDefault called if and only if the plugin inserted its text, which it
\* does at most once.
C5_PastedExactlyOnce ==
    (origin = "editor-paste" /\ settings.pasteOverride /\ pc = "idle") =>
        /\ defaultPrevented <=> Len(inserted) = 1
        /\ Len(inserted) <= 1

\* C5 witness: an editor-paste event whose text the plugin inserted, the
\* default paste prevented
C5_PluginPasted ==
    /\ origin = "editor-paste"
    /\ settings.pasteOverride
    /\ pc = "idle"
    /\ defaultPrevented
    /\ Len(inserted) = 1

\* C6: in the contextual cascade the first heading of level <= contextLevel
\* gets level min(contextLevel + 1, 6) and every heading before it keeps its
\* level; the documented example under context level 2 comes out as
\* 3,4,5,6,6,6 per block.
C6_ContextualCascade ==
    HeadingMode(settings, contextLevel) = "contextual" =>
        /\ \A i \in DOMAIN log :
               (/\ log[i].currentLevel <= contextLevel
                /\ \A j \in 1..(i - 1) : log[j].currentLevel > contextLevel)
               => /\ log[i].newLevel = Min(contextLevel + 1, 6)
                  /\ \A j \in 1..(i - 1) : log[j].newLevel = log[j].currentLevel
        /\ (pc = "returned" /\ originalMarkdown = TwoBlocks /\ contextLevel = 2)
               => /\ NewLevels = <<3, 4, 5, 6, 6, 6, 3, 4, 5, 6, 6, 6>>
                  /\ markdown = TwoBlocksOf(<<3, 4, 5, 6, 6, 6>>)

\* C6 witness: the scan of the documented example under context level 2 has
\* returned
C6_ExampleReturned ==
    /\ HeadingMode(settings, contextLevel) = "contextual"
    /\ pc = "returned"
    /\ originalMarkdown = TwoBlocks
    /\ contextLevel = 2

\* C7: a step of the scan taken in the cascading state stays in it, keeps
\* delta, and rewrites the heading it handles to min(level + delta, 6); the
\* step that enters the state fixes delta as new level minus old level.
C7_CascadeDeltaFixed ==
    [][pc = "headings" =>
           /\ cascading =>
                  /\ cascading'
                  /\ delta' = delta
                  /\ log' # log =>
                         log'[Len(log')].newLevel
                             = Min(log'[Len(log')].currentLevel + delta, 6)
           /\ (~cascading /\ cascading') =>
                  delta' = log'[Len(log')].newLevel - log'[Len(log')].currentLevel
      ]_vars

\* C7 witness: a cascade with a positive delta has rewritten a heading after
\* the one that started it, and clamped one to 6
C7_Cascaded ==
    /\ cascading
    /\ delta > 0
    /\ \E i \in DOMAIN log : \E k \in DOMAIN log :
           /\ i < k
           /\ log[i].newLevel = log[i].currentLevel + delta
           /\ log[k].newLevel = 6
           /\ log[k].currentLevel + delta > 6

C9_SimpleCap ==
    (HeadingMode(settings, contextLevel) = "max" /\ ~settings.cascadeHeadingLevels) =>
        /\ \A i \in DOMAIN log :
               log[i].newLevel = Max(log[i].currentLevel, settings.maxHeadingLevel)
        /\ (pc = "returned" /\ originalMarkdown = TwoBlocks /\ settings.maxHeadingLevel = 3)
               => /\ NewLevels = <<3, 3, 3, 4, 5, 6, 3, 3, 3, 4, 5, 6>>
                  /\ markdown = TwoBlocksOf(<<3, 3, 3, 4, 5, 6>>)

\* C9 witness: the simple cap has returned the documented example under
\* maxHeadingLevel 3
C9_ExampleReturned ==
    /\ HeadingMode(settings, contextLevel) = "max"
    /\ ~settings.cascadeHeadingLevels
    /\ pc = "returned"
    /\ originalMarkdown = TwoBlocks
    /\ settings.maxHeadingLevel = 3

\* C10: under the simple cap, transformMarkdown applied to its own output
\* returns that output unchanged and appliedTransformations = false.
C10_CapIdempotent ==
    (pc = "returned" /\ call = 2) =>
        /\ markdown = firstResult.markdown
        /\ ~appliedTransformations

\* C10 witness: the second call has returned, after a first call that raised
\* a heading and reported it
C10_SecondCallReturned ==
    /\ pc = "returned"
    /\ call = 2
    /\ firstResult.appliedTransformations
    /\ \E i \in DOMAIN log : log[i].currentLevel = settings.maxHeadingLevel


\* the lines of a text: what '\n' separates, a final '\n' ending the last line
LinesOf(text) ==
    LET parts == SplitLines(text)
    IN  IF parts[Len(parts)] = << >> THEN SubSeq(parts, 1, Len(parts) - 1) ELSE parts

\* the text has an empty or whitespace-only line
HasBlankLine(text) == \E k \in DOMAIN LinesOf(text) : IsBlankLine(LinesOf(text)[k])

\* C11: with removeEmptyLines on, the returned text has no blank line,
\* whatever stripLineBreaks and convertToSingleSpaced are and whether or not
\* the text given holds line-break markers.
C11_NoBlankLineLeft ==
    (pc = "returned" /\ settings.removeEmptyLines) => ~HasBlankLine(markdown)


\* the single-spacing requirement: of every run of two or more consecutive
\* blank lines one blank line is kept; the other lines are kept as they are
CollapseBlankRuns(text) ==
    LET lines == LinesOf(text)
        kept  == {k \in DOMAIN lines :
                    ~(k > 1 /\ IsBlankLine(lines[k]) /\ IsBlankLine(lines[k - 1]))}
        ended == Len(lines) < Len(SplitLines(text))
    IN  Join([i \in 1..Cardinality(kept) |-> lines[Nth(kept, i)]])
            \o (IF ended /\ lines # << >> THEN <<"\n">> ELSE << >>)

\* the text holds no marker tag and no placeholder text
PlainText(text) ==
    \A i \in DOMAIN text : ~IsTag(text[i]) /\ text[i] # lineBreakPlaceholder

\* C12: with convertToSingleSpaced on and removeEmptyLines off (no escaping,
\* no markers in the text), the returned text is the given text with every
\* run of two or more blank lines collapsed to one blank line, and the flag
\* is true when a run was collapsed; 'A\n\n\n\nB\n\nC' comes back as
\* 'A\n\nB\n\nC'.
C12_SingleSpaced ==
    (/\ pc = "returned"
     /\ settings.convertToSingleSpaced
     /\ ~settings.removeEmptyLines
     /\ ~escapeMarkdown
     /\ PlainText(originalMarkdown))
    => /\ markdown = CollapseBlankRuns(originalMarkdown)
       /\ markdown # originalMarkdown => appliedTransformations
       /\ originalMarkdown = SpacedExample =>
              markdown = Join(<< <<"A">>, << >>, <<"B">>, << >>, <<"C">> >>)


\* the text holds a marker paragraph: a marker start tag closed on its line
HasMarker(text) ==
    \E i \in DOMAIN text :
        text[i] \in {OpenClass, OpenData} /\ MarkerEnd(text, i, text[i]) # 0

\* C13: with stripLineBreaks off, the returned text holds neither the
\* placeholder text nor a marker paragraph, with or without escaping and
\* removeEmptyLines.
C13_NoMarkerLeft ==
    (pc = "returned" /\ ~settings.stripLineBreaks) =>
        /\ \A i \in DOMAIN markdown : markdown[i] # lineBreakPlaceholder
        /\ ~HasMarker(markdown)

\* C13 witness: a text of two marker lines was returned as line breaks, in
\* escape mode with removeEmptyLines on
C13_MarkersReplaced ==
    /\ pc = "returned"
    /\ ~settings.stripLineBreaks
    /\ settings.removeEmptyLines
    /\ escapeMarkdown
    /\ originalMarkdown = Join(<< MarkerClass, MarkerClass >>)
    /\ \E i \in DOMAIN markdown : markdown[i] = "\n"


\* the lengths of the runs of '#' of a text, in order
HashRuns(text) ==
    LET starts == {i \in DOMAIN text : text[i] = "#" /\ (i = 1 \/ text[i - 1] # "#")}
    IN  [k \in 1..Cardinality(starts) |-> HashRun(text, Nth(starts, k))]

\* C14: in escape mode no heading callback runs and every run of '#' of the
\* text given comes back with the same length, whatever contextualCascade,
\* contextLevel, maxHeadingLevel and cascadeHeadingLevels are.
C14_HeadingsKeptInEscapeMode ==
    (pc = "returned" /\ escapeMarkdown) =>
        /\ log = << >>
        /\ HashRuns(markdown) = HashRuns(originalMarkdown)

\* C14 witness: escape mode has returned a text with an H1 under settings
\* that would have moved it (contextual cascade, context level 2)
C14_EscapedHeadingReturned ==
    /\ pc = "returned"
    /\ escapeMarkdown
    /\ HeadingMode(settings, contextLevel) = "contextual"
    /\ originalMarkdown = Heading(1)
    /\ markdown = <<"\\">> \o Heading(1)


\* the inline code spans of a text: a backtick up to the next backtick of its
\* line, paired from the left
CodeSpans(text) ==
    LET E == [i \in 1..Len(text) |->
                 IF text[i] = Backtick THEN CodeOrTagEnd(text, i) ELSE 0]
    IN  {SubSeq(text, i, E[i] - 1) : i \in MatchStarts(E, 1)}

\* `piece` occurs in `text`
Contains(text, piece) ==
    \E k \in 0..(Len(text) - Len(piece)) : SubSeq(text, k + 1, k + Len(piece)) = piece

\* the character at index i, or the run of that character it is in, follows a
\* backslash
EscapedAt(text, i) ==
    LET r == RunStart(text, i) IN r > 1 /\ text[r - 1] = "\\"

\* in a text without code, no heading is left and every '*', '_' and '|' is
\* behind a backslash
EscapedOutsideCode ==
    (\A i \in DOMAIN originalMarkdown : originalMarkdown[i] # Backtick) =>
        /\ \A i \in DOMAIN markdown : ~HeadingAt(markdown, i)
        /\ \A i \in DOMAIN markdown :
               markdown[i] \in {"*", "_", "|"} => EscapedAt(markdown, i)

\* C15: in escape mode the Markdown constructs outside code come back behind
\* a backslash, and every inline code span of the text given comes back as
\* it was, its backticks and its content without an escape character.
C15_CodeSpansPassedThrough ==
    (pc = "returned" /\ escapeMarkdown) =>
        /\ EscapedOutsideCode
        /\ \A span \in CodeSpans(originalMarkdown) : Contains(markdown, span)


\* the patterns of a list that compile, in list order
Compiling(list) == SelectSeq(list, LAMBDA rep : ~PatternThrows(rep.pattern))

\* the replacements of a list applied one after the other, each to the
\* output of the one before
RECURSIVE ApplyInOrder(_, _)
ApplyInOrder(text, list) ==
    IF list = << >> THEN text
    ELSE ApplyInOrder(ReplaceAll(text, Head(list).pattern, Head(list).replacement),
                      Tail(list))

\* C16: in both transformers the pattern loop ends, and the text it leaves is
\* the text given with the patterns that compile applied in list order, each
\* to the output of the one before; a pattern that does not compile changes
\* nothing.
C16_InvalidPatternSkipped ==
    /\ pc # "regex" =>
           markdown = ApplyInOrder(originalMarkdown,
                                   Compiling(settings.markdownRegexReplacements))
    /\ htmlPc = "parse" =>
           html = ApplyInOrder(originalHTML, Compiling(settings.htmlRegexReplacements))

\* C16 witness: both calls went past a pattern that does not compile and
\* applied the patterns after it
C16_AppliedAfterInvalid ==
    /\ pc = "returned"
    /\ htmlPc = "parse"
    /\ settings.markdownRegexReplacements
           = << Replacement("a", <<"b">>), Replacement("(", <<"x">>),
                Replacement("b", <<"c", "c">>) >>
    /\ settings.htmlRegexReplacements
           = << Replacement("(", <<"x">>), Replacement("a", <<"b">>) >>
    /\ originalMarkdown = <<"a">>
    /\ markdown = <<"c", "c">>
    /\ originalHTML = <<"a", "b", "a">>
    /\ html = <<"b", "b", "b">>


\* C17: one heading mode runs per call. With the contextual cascade active
\* (contextualCascade on, contextLevel > 0) the result of transformMarkdown is
\* the same for every maxHeadingLevel and cascadeHeadingLevels; with
\* contextualCascade off the result is the same for every contextLevel. The
\* second call differs from the first in exactly those arguments.
C17_OneHeadingMode ==
    (pc = "returned" /\ call = 2) =>
        Result(markdown, appliedTransformations) = firstResult

\* C17 witness: the contextual cascade rewrote '# a\n#### a' under context
\* level 3 (to '#### a\n###### a'), in a call where maxHeadingLevel 2 with
\* cascadeHeadingLevels would have rewritten it otherwise, and the call before,
\* under another maxHeadingLevel / cascadeHeadingLevels, returned the same
C17_ContextualSupersedes ==
    /\ pc = "returned"
    /\ call = 2
    /\ settings.contextualCascade
    /\ contextLevel = 3
    /\ settings.maxHeadingLevel = 2
    /\ settings.cascadeHeadingLevels
    /\ originalMarkdown = Join(<< Heading(1), Heading(4) >>)
    /\ markdown = Join(<< Heading(4), Heading(6) >>)
    /\ firstResult.markdown = markdown


\* the number n in 1..6 such that the line is n '#' followed by whitespace;
\* 0 when the line is not of that form
LeadingHashes(line) ==
    LET ns == { n \in 1..6 : /\ Len(line) > n
                             /\ \A k \in 1..n : line[k] = "#"
                             /\ line[n + 1] \in {" ", "\t"} }
    IN  IF ns = {} THEN 0 ELSE CHOOSE n \in ns : TRUE

\* the heading lines at or above the cursor
HeadingLinesAbove(ed) == { i \in 1..ed.cursor : LeadingHashes(ed.lines[i]) > 0 }

\* C18: getCurrentHeadingLevel returns the number of leading '#' of the
\* heading line with the largest index at or above the cursor line, 0 when
\* there is no heading line from the cursor line back to the first line, and
\* always a number in 0..6.
C18_NearestHeadingAbove ==
    (pc = "idle" /\ editor \in Cursors) =>
        /\ contextLevel \in 0..6
        /\ contextLevel =
              IF HeadingLinesAbove(editor) = {} THEN 0
              ELSE LeadingHashes(editor.lines[
                       CHOOSE i \in HeadingLinesAbove(editor) :
                           \A j \in HeadingLinesAbove(editor) : j <= i])

\* C18 witness: the cursor is on a heading line below another heading, and
\* the level read is that of the cursor's own line
C18_CursorOnHeading ==
    /\ pc = "idle"
    /\ editor = DocumentAt(<< Heading(2), Heading(5) >>, 2)
    /\ contextLevel = 5


FenceOf(line) ==
    IF Len(line) >= 3 /\ line[1] \in {Backtick, "~"}
                      /\ line[2] = line[1] /\ line[3] = line[1]
    THEN line[1] ELSE ""

\* the fence left open by lines[1..n]; "" when every fence is closed
RECURSIVE OpenFence(_, _)
OpenFence(lines, n) ==
    IF n = 0 THEN ""
    ELSE LET before == OpenFence(lines, n - 1)
             c      == FenceOf(lines[n])
         IN  IF before = "" THEN c
             ELSE IF c = before THEN ""
             ELSE before

\* the cursor is inside a fenced code block: a fence above the cursor line is
\* open, with no closing fence before the cursor
InsideUnclosedFence(ed) == ed.view /\ OpenFence(ed.lines, ed.cursor - 1) # ""

\* C20: with pasteOverride on and the cursor inside an unclosed fenced code
\* block, an editor paste ends with nothing inserted by the plugin and
\* event.preventDefault() not called.
C20_CodeBlockBypass ==
    (origin = "editor-paste" /\ settings.pasteOverride /\ pc = "idle"
        /\ InsideUnclosedFence(editor)) =>
        (inserted = << >> /\ ~defaultPrevented)


\* an element of the parsed document was removed or replaced
NodeRemovedOrReplaced == doc # parsed

\* C21: transformHTML returns the pair (html, changed), changed being true
\* when a node was removed or replaced (no pattern is configured here);
\* doPaste hands exactly the returned html to htmlToMarkdown and takes the
\* changed flag as appliedHTMLTransformations.
C21_ReturnedHtmlConverted ==
    htmlPc = "converted" =>
        /\ converted = Defined(html)
        /\ appliedHTMLTransformations = NodeRemovedOrReplaced


\* the element is not a void tag, does not carry the preserve attribute, has
\* no text content other than white space and no descendant that is a void
\* tag or carries the preserve attribute
EmptyElement(d, i) ==
    /\ \A j \in Subtree(d, i) :
           /\ d[j].tag \notin {"img", "hr", "br", "input", "iframe"}
           /\ ~d[j].preserve
           /\ \A k \in DOMAIN d[j].text : d[j].text[k] \in {" ", "\t", "\n", "\r"}

\* the pruning step of transformHTML is over
Pruned == htmlPc \in {"serialize", "returned", "converted"}

\* C22: with removeEmptyElements on, no empty element is left in the
\* document after the pruning step, whatever its tag name.
C22_NoEmptyElementLeft ==
    (Pruned /\ settings.removeEmptyElements) =>
        \A i \in DOMAIN doc : Attached(doc, i) => ~EmptyElement(doc, i)


\* the br elements of the parsed document, and the marker paragraphs and the
\* void elements that are in the document now
BrElements == {i \in DOMAIN parsed : parsed[i].tag = "br"}

Markers == {i \in DOMAIN doc : Attached(doc, i) /\ doc[i].preserve}

\* C23: after the line-break and pruning steps the document holds no br. With
\* stripLineBreaks off every br of the parsed document has become one marker
\* paragraph (a p with data-preserve and the zero-width space as content),
\* pruning has removed no marker, so there are as many markers as there were
\* br elements; and an img of the parsed document is still in the document.
C23_LineBreakPolicy ==
    Pruned =>
        /\ \A i \in DOMAIN doc : Attached(doc, i) => doc[i].tag # "br"
        /\ \A i \in DOMAIN doc : parsed[i].tag = "img" => Attached(doc, i)
        /\ ~settings.stripLineBreaks =>
              /\ Markers = BrElements
              /\ Cardinality(Markers) = Cardinality(BrElements)
              /\ \A i \in Markers : doc[i].tag = "p" /\ doc[i].text = << ZWSP >>

\* C23 witness: '<div><br></div><div></div>' with stripLineBreaks off and
\* removeEmptyElements on: the br became a marker, pruning removed the empty
\* div and kept the marker and the div around it
C23_MarkerKept ==
    /\ Pruned
    /\ settings.removeEmptyElements
    /\ ~settings.stripLineBreaks
    /\ parsed = << Element("div", 0, << >>), Element("br", 1, << >>),
                   Element("div", 0, << >>) >>
    /\ Attached(doc, 1)
    /\ doc[2] = LineBreakP(parsed[2])
    /\ ~Attached(doc, 3)


\* the elements that are in the document
AttachedElements(d) == {i \in DOMAIN d : Attached(d, i)}

\* C30: the pruning loop terminates. A pass after which the loop goes on has
\* detached at least one element that was in the document when the pass
\* began, a pass that removed nothing ends the loop, and a call that has
\* entered the loop leaves it.
C30_PruningTerminates ==
    /\ [][htmlPc = "prune" =>
            /\ htmlPc' = "prune" =>
                  AttachedElements(doc') # AttachedElements(doc)
                      /\ AttachedElements(doc') \subseteq AttachedElements(doc)
            /\ AttachedElements(doc') = AttachedElements(doc) =>
                  htmlPc' = "serialize"]_vars
    /\ (htmlPc = "prune") ~> (htmlPc = "serialize")

\* C30 witness: '<div></div><b></b>': the first pass removed the div, the
\* second removed nothing and ended the loop
C30_LoopLeft ==
    /\ htmlPc = "serialize"
    /\ settings.removeEmptyElements
    /\ ~emptyElementsFound
    /\ parsed = << Element("div", 0, << >>), Element("b", 0, << >>) >>
    /\ AttachedElements(doc) = {2}


\* the levels of the heading lines of a text
HeadingLevelsOf(text) == { HashRun(text, i) : i \in {j \in DOMAIN text : HeadingAt(text, j)} }

\* C24: with maxHeadingLevel M in 2..6, the contextual cascade not active and
\* escape mode off, every heading of the text transformMarkdown returns has a
\* level of at least M, with cascadeHeadingLevels on or off.
C24_MaxHeadingLevelIsMinimum ==
    (pc = "returned" /\ HeadingMode(settings, contextLevel) = "max" /\ ~escapeMarkdown) =>
        \A level \in HeadingLevelsOf(markdown) : level >= settings.maxHeadingLevel


\* C25: with the contextual cascade active and contextLevel c in 1..5, every
\* heading of the text transformMarkdown returns has a level of at least
\* c + 1.
C25_ContextualFloor ==
    (/\ pc = "returned"
     /\ HeadingMode(settings, contextLevel) = "contextual"
     /\ ~escapeMarkdown
     /\ contextLevel \in 1..5) =>
        \A level \in HeadingLevelsOf(markdown) : level >= contextLevel + 1


\* C26: the command 'Reformat and Paste', run with an active Markdown editor
\* and a clipboard that holds HTML or plain text, has inserted the content
\* exactly once when it is over, also when no transformation changed the
\* text. (A behaviour handles one paste: once the command is back at idle
\* nothing more is inserted.)
C26_CommandInsertsOnce ==
    (/\ origin = "reformat-and-paste"
     /\ pc = "idle"
     /\ editor.view
     /\ clipboardData.present
     /\ clipboardData.types \cap {"text/html", "text/plain"} # {}) =>
        Len(inserted) = 1


\* C27: every heading the heading-adjustment stage writes has a level in
\* 1..6, for input levels 1..6, contextLevel 0..6 and maxHeadingLevel 1..6,
\* in the contextual cascade, the standalone cascade and the simple cap.
C27_LevelsClamped ==
    \A i \in DOMAIN log :
        /\ log[i].currentLevel \in 1..6
        /\ log[i].newLevel \in 1..6

\* C27 witness: a mode pushed to its limit (context level 6, or
\* maxHeadingLevel 6 with or without cascade) has returned the documented
\* example with every heading written at level 6
C27_ClampedAtSix ==
    /\ pc = "returned"
    /\ originalMarkdown = TwoBlocks
    /\ \/ HeadingMode(settings, contextLevel) = "contextual" /\ contextLevel = 6
       \/ HeadingMode(settings, contextLevel) = "max"
              /\ settings.cascadeHeadingLevels /\ settings.maxHeadingLevel = 6
       \/ HeadingMode(settings, contextLevel) = "max"
              /\ ~settings.cascadeHeadingLevels /\ settings.maxHeadingLevel = 6
    /\ \A i \in DOMAIN log : log[i].newLevel = 6


\* a line without its leading run of '#'
AfterHashes(line) == SubSeq(line, HashRun(line, 1) + 1, Len(line))

\* C28: heading adjustment changes nothing but the number of leading '#' of
\* lines: the text returned has as many lines as the text given, and each
\* line is the line given up to its leading run of '#' (so a line whose
\* level is unchanged is unchanged), also when a heading marker is followed
\* directly by a line break.
C28_OnlyHashesChange ==
    (pc = "returned" /\ ~escapeMarkdown) =>
        /\ Len(SplitLines(markdown)) = Len(SplitLines(originalMarkdown))
        /\ \A k \in DOMAIN SplitLines(markdown) :
               k \in DOMAIN SplitLines(originalMarkdown) =>
                   AfterHashes(SplitLines(markdown)[k])
                       = AfterHashes(SplitLines(originalMarkdown)[k])


\* C29: in the contextual cascade and in the standalone cascade, two
\* headings of the text given with levels a <= b come back with levels
\* a' <= b', wherever they stand relative to the heading that starts the
\* cascade.
C29_HierarchyPreserved ==
    (/\ pc = "returned"
     /\ \/ HeadingMode(settings, contextLevel) = "contextual"
        \/ HeadingMode(settings, contextLevel) = "max" /\ settings.cascadeHeadingLevels) =>
        \A i \in DOMAIN log : \A j \in DOMAIN log :
            log[i].currentLevel <= log[j].currentLevel =>
                log[i].newLevel <= log[j].newLevel

============================================================================
